---- MODULE Spec2Model ----
(***************************************************************************)
(* Model of autorest/responder.go: Responders, RespondDecorators and the   *)
(* standard decorators.  A Responder is a nest of decorator closures       *)
(* around a base responder; invoking it is a chain of nested calls, which  *)
(* the model executes one call and one return at a time.                   *)
(***************************************************************************)
EXTENDS Integers, Sequences, FiniteSets, TLC

\* Longest decorator list passed to CreateResponder / DecorateResponder / Respond.
MaxChain == 3

\* http.StatusOK
StatusOK == 200

\* Status codes a response may carry.
Statuses == {200, 201, 404}

\* Code lists passed to WithErrorUnlessStatusCode.
CodeSets == {{StatusOK}, {200, 201}}

\* Fields of the value v that ByUnmarshallingJSON decodes into; 0 is "not set".
Fields == {"a", "b"}

EmptyTarget == [f \in Fields |-> 0]

\* Response bodies: DocA is {"a":1}, DocB is {"b":2}, DocBad is the truncated
\* document {"a": and NilBody is a nil resp.Body.
NilBody == "nil"

Documents == {"DocA", "DocB", "DocBad"}

DocValues(doc) ==
    CASE doc = "DocA" -> [f \in Fields |-> IF f = "a" THEN 1 ELSE 0]
      [] doc = "DocB" -> [f \in Fields |-> IF f = "b" THEN 2 ELSE 0]
      [] OTHER -> EmptyTarget

DocText(doc) ==
    CASE doc = "DocA" -> "{\"a\":1}"
      [] doc = "DocB" -> "{\"b\":2}"
      [] doc = "DocBad" -> "{\"a\":"
      [] OTHER -> ""

(***************************************************************************)
(* Responses (http.Response pointers): nil, or a status code, a Body and a *)
(* Request that may each be nil.  closedRead is what the Body's Read gives *)
(* once the Body is closed, which the Body's implementation decides: the   *)
(* bytes all the same ("data") or an error ("error").                      *)
(***************************************************************************)
ClosedReads == {"data", "error"}

NilResponse ==
    [isNil |-> TRUE, status |-> 0, body |-> NilBody, hasRequest |-> FALSE,
     closedRead |-> "error"]

Responses ==
    {NilResponse}
    \cup [isNil : {FALSE}, status : Statuses, body : Documents, hasRequest : BOOLEAN,
          closedRead : ClosedReads]
    \cup [isNil : {FALSE}, status : Statuses, body : {NilBody}, hasRequest : BOOLEAN,
          closedRead : {"error"}]

(***************************************************************************)
(* Errors.                                                                 *)
(***************************************************************************)
NoError == [type |-> "nil", code |-> 0, cause |-> "", raw |-> ""]

\* The error e returned by a caller-supplied base responder.
BaseError == [type |-> "base", code |-> 0, cause |-> "e", raw |-> ""]

\* fmt.Errorf("Error (%v) occurred decoding JSON (\"%s\")", err, b.String())
DecodeError(cause, raw) == [type |-> "decode", code |-> 0, cause |-> cause, raw |-> raw]

\* NewErrorWithStatusCode("autorest", "WithErrorUnlessStatusCode", resp.StatusCode,
\*     "%v %v failed with %s", resp.Request.Method, resp.Request.URL, resp.Status)
NewErrorWithStatusCode(r) ==
    [type |-> "status", code |-> r.status, cause |-> "method url failed with status", raw |-> ""]

\* ResponseHasStatusCode(resp, codes...): resp.StatusCode is among codes.
ResponseHasStatusCode(r, codes) == r.status \in codes

(***************************************************************************)
(* Decorators (RespondDecorator values).  id tells the occurrences in one  *)
(* list apart: it is the position the decorator is passed at.              *)
(***************************************************************************)
ByIgnoringDecorator(i) == [kind |-> "ByIgnoring", codes |-> {}, id |-> i]

ByClosingDecorator(i) == [kind |-> "ByClosing", codes |-> {}, id |-> i]

ByClosingIfErrorDecorator(i) == [kind |-> "ByClosingIfError", codes |-> {}, id |-> i]

ByUnmarshallingJSONDecorator(i) == [kind |-> "ByUnmarshallingJSON", codes |-> {}, id |-> i]

WithErrorUnlessStatusCodeDecorator(codes, i) ==
    [kind |-> "WithErrorUnlessStatusCode", codes |-> codes, id |-> i]

WithErrorUnlessOK(i) == WithErrorUnlessStatusCodeDecorator({StatusOK}, i)

StandardDecorators(i) ==
    {ByIgnoringDecorator(i), ByClosingDecorator(i), ByClosingIfErrorDecorator(i),
     ByUnmarshallingJSONDecorator(i)}
    \cup {WithErrorUnlessStatusCodeDecorator(c, i) : c \in CodeSets}

\* The decorator lists of length n: the i-th element carries id i.
Chains(n) ==
    {c \in [1..n -> UNION {StandardDecorators(i) : i \in 1..n}] :
        \A i \in 1..n : c[i].id = i}

AllChains == UNION {Chains(n) : n \in 0..MaxChain}

(***************************************************************************)
(* Responders.  A base responder returns a fixed outcome; a decorated one  *)
(* is the closure a decorator returns, holding the responder it wraps.     *)
(***************************************************************************)
NoResponder == [kind |-> "none"]

BaseResponder(e) == [kind |-> "base", err |-> e]

\* ResponderFunc(func(r *http.Response) error { return nil })
NoopResponder == BaseResponder(NoError)

Bases == {NoopResponder, BaseResponder(BaseError)}

\* decorate(r): the responder a RespondDecorator returns for r.
Decorate(d, r) == [kind |-> "decorated", dec |-> d, inner |-> r]

RECURSIVE DecorateFrom(_, _, _)
DecorateFrom(r, decorators, i) ==
    IF i > Len(decorators) THEN r
    ELSE DecorateFrom(Decorate(decorators[i], r), decorators, i + 1)

RECURSIVE DecorateDownFrom(_, _, _)
DecorateDownFrom(r, decorators, i) ==
    IF i < 1 THEN r
    ELSE DecorateDownFrom(Decorate(decorators[i], r), decorators, i - 1)

\* A DecorateResponder that ranges over the list from its end.
DecorateResponderBackwards(r, decorators) == DecorateDownFrom(r, decorators, Len(decorators))

\* for _, decorate := range decorators { r = decorate(r) }; return r
DecorateResponder(r, decorators) == DecorateFrom(r, decorators, 1)

CreateResponder(decorators) == DecorateResponder(NoopResponder, decorators)

RECURSIVE BaseOf(_)
BaseOf(r) == IF r.kind = "decorated" THEN BaseOf(r.inner) ELSE r

(***************************************************************************)
(* Events of one invocation, in the order they happen.                     *)
(***************************************************************************)
Event(ev, i) == [ev |-> ev, id |-> i]

(***************************************************************************)
(* What a decorator's closure does once the responder it wraps has         *)
(* returned.  s is the state of the invocation: the inner outcome err, the *)
(* body's close count and stream position, the target v, the trace and     *)
(* whether a runtime fault (panic) happened.                               *)
(***************************************************************************)
Tick(s, ev, d) == [s EXCEPT !.trace = Append(@, Event(ev, d.id))]

Panic(s) == [s EXCEPT !.panic = TRUE]

\* resp.Body.Close()
Close(s, d) == [Tick(s, "close", d) EXCEPT !.closeCount = @ + 1]

\* return r.Respond(resp)
ByIgnoring(d, r, s) == s

\* A ByClosing that returns the outcome of Close (nil) in place of err.
ByClosingDroppingError(d, r, s) ==
    IF ~r.isNil /\ r.body # NilBody THEN [Close(s, d) EXCEPT !.err = NoError] ELSE s

\* A ByClosing whose closure remembers, in state all invocations share (kept
\* here in field "a" of the shared value), that it has closed a body.
ByClosingOnce(d, r, s) ==
    IF ~r.isNil /\ r.body # NilBody /\ s.target["a"] = 0
      THEN [Close(s, d) EXCEPT !.target["a"] = 1]
      ELSE s

\* err := r.Respond(resp); if resp != nil && resp.Body != nil { resp.Body.Close() }
ByClosing(d, r, s) ==
    IF ~r.isNil /\ r.body # NilBody THEN Close(s, d) ELSE s

\* A ByClosingIfError whose test of err is inverted.
ByClosingIfNoError(d, r, s) ==
    IF s.err = NoError /\ ~r.isNil /\ r.body # NilBody THEN Close(s, d) ELSE s

\* if err != nil && resp != nil && resp.Body != nil { resp.Body.Close() }
ByClosingIfError(d, r, s) ==
    IF s.err # NoError /\ ~r.isNil /\ r.body # NilBody THEN Close(s, d) ELSE s

\* d.Decode(v) on the bytes the body yields: a JSON object sets the fields it
\* names and leaves the others of v as they are.
Decode(doc, v) == [f \in Fields |-> IF DocValues(doc)[f] # 0 THEN DocValues(doc)[f] ELSE v[f]]

\* A decoding that refuses a document naming a field v already holds.
ReadAndDecodeOnce(d, r, s) ==
    LET t == [Tick(s, "read", d) EXCEPT !.consumed = TRUE,
                                        !.readAfterClose = @ \/ s.closeCount > 0]
    IN  IF s.closeCount > 0 /\ r.closedRead = "error"
          THEN [t EXCEPT !.err = DecodeError("read on closed body", ""),
                         !.consumed = s.consumed]
        ELSE IF s.consumed
          THEN [t EXCEPT !.err = DecodeError("EOF", "")]
        ELSE IF r.body = "DocBad"
          THEN [t EXCEPT !.err = DecodeError("unexpected EOF", DocText(r.body))]
        ELSE IF \E f \in Fields : DocValues(r.body)[f] # 0 /\ s.target[f] # 0
          THEN [t EXCEPT !.err = DecodeError("field already set", DocText(r.body))]
        ELSE [t EXCEPT !.target = Decode(r.body, @)]

\* json.NewDecoder(io.TeeReader(resp.Body, &b)).Decode(v)
ReadAndDecode(d, r, s) ==
    LET t == [Tick(s, "read", d) EXCEPT !.consumed = TRUE,
                                        !.readAfterClose = @ \/ s.closeCount > 0]
    IN  IF s.closeCount > 0 /\ r.closedRead = "error"
          THEN [t EXCEPT !.err = DecodeError("read on closed body", ""),
                         !.consumed = s.consumed]
        ELSE IF s.consumed
          THEN [t EXCEPT !.err = DecodeError("EOF", "")]
        ELSE IF r.body = "DocBad"
          THEN [t EXCEPT !.err = DecodeError("unexpected EOF", DocText(r.body))]
        ELSE [t EXCEPT !.target = Decode(r.body, @)]

\* A ByUnmarshallingJSON that decodes whatever the inner outcome is.
ByUnmarshallingJSONRegardless(d, r, s) ==
    IF r.isNil \/ r.body = NilBody THEN Panic(s) ELSE ReadAndDecode(d, r, s)

\* err := r.Respond(resp); if err == nil { ... d.Decode(v) ... }
ByUnmarshallingJSON(d, r, s) ==
    IF s.err = NoError
      THEN IF r.isNil \/ r.body = NilBody THEN Panic(s)
           ELSE ReadAndDecode(d, r, s)
      ELSE s

\* if err == nil && !ResponseHasStatusCode(resp, codes...) { err = NewErrorWithStatusCode(...) }
WithErrorUnlessStatusCode(d, r, s) ==
    IF s.err = NoError
      THEN IF r.isNil THEN Panic(s)
           ELSE IF ~ResponseHasStatusCode(r, d.codes)
             THEN IF ~r.hasRequest THEN Panic(Tick(s, "check", d))
                  ELSE [Tick(s, "check", d) EXCEPT !.err = NewErrorWithStatusCode(r)]
           ELSE Tick(s, "check", d)
      ELSE s

\* The part of a decorator's closure that follows its call of r.Respond(resp).
PostAction(d, r, s) ==
    CASE d.kind = "ByIgnoring" -> ByIgnoring(d, r, s)
      [] d.kind = "ByClosing" -> ByClosing(d, r, s)
      [] d.kind = "ByClosingIfError" -> ByClosingIfError(d, r, s)
      [] d.kind = "ByUnmarshallingJSON" -> ByUnmarshallingJSON(d, r, s)
      [] d.kind = "WithErrorUnlessStatusCode" -> WithErrorUnlessStatusCode(d, r, s)

\* rs.Respond(r) as one nested call, from invocation state st to the state it
\* returns (or faults) in.
RECURSIVE Run(_, _, _)
Run(rs, r, st) ==
    IF rs.kind = "decorated"
      THEN LET inner == Run(rs.inner, r, Tick(st, "pre", rs.dec))
               t == PostAction(rs.dec, r, inner)
           IN  IF inner.panic THEN inner
               ELSE IF t.panic THEN t
               ELSE Tick(t, "post", rs.dec)
      ELSE [st EXCEPT !.err = rs.err, !.trace = Append(@, Event("base", 0))]

\* The state an invocation on a fresh response starts in, with v holding target.
FreshState(target) ==
    [err |-> NoError, closeCount |-> 0, consumed |-> FALSE, readAfterClose |-> FALSE,
     target |-> target, trace |-> <<>>, panic |-> FALSE]

(***************************************************************************)
(* State.                                                                  *)
(***************************************************************************)
VARIABLES
    decorators,   \* the decorator list the caller passes
    entry,        \* "none", "Respond" (the Respond function) or "Responder" (a built responder)
    responder,    \* the composed responder
    resp,         \* the response of the current invocation
    invocation,   \* 0 before the first invocation, then 1 and 2
    pc,           \* "idle", "composed", "calling", "returning", "done", "panic"
    callee,       \* the responder whose Respond is being entered
    stack,        \* the decorators whose closures wait for their inner call, outermost first
    s,            \* the state of the invocation (see PostAction)
    threads,      \* two concurrent invocations of the responder and the target they share
    extract       \* a call of ExtractHeader or ExtractHeaderValue: arguments and result

vars == <<decorators, entry, responder, resp, invocation, pc, callee, stack, s,
          threads, extract>>

\* No concurrent invocations.
NoThreads == [v |-> EmptyTarget, writers |-> {}, run |-> <<>>]

\* No call of a header accessor.
NoExtract == [op |-> "none"]

Init ==
    /\ decorators \in AllChains
    /\ entry = "none"
    /\ responder = NoResponder
    /\ resp = NilResponse
    /\ invocation = 0
    /\ pc = "idle"
    /\ callee = NoResponder
    /\ stack = <<>>
    /\ s = FreshState(EmptyTarget)
    /\ threads = NoThreads
    /\ extract = NoExtract

\* A CreateResponder that runs the responder it has built.
DoCreateResponderEagerly ==
    /\ pc = "idle"
    /\ responder' = CreateResponder(decorators)
    /\ entry' = "Responder"
    /\ pc' = "composed"
    /\ s' = Run(responder', resp, s)
    /\ UNCHANGED <<decorators, resp, invocation, callee, stack>>
    /\ UNCHANGED <<threads, extract>>

\* CreateResponder(decorators...)
DoCreateResponder ==
    /\ pc = "idle"
    /\ responder' = CreateResponder(decorators)
    /\ entry' = "Responder"
    /\ pc' = "composed"
    /\ UNCHANGED <<decorators, resp, invocation, callee, stack, s>>
    /\ UNCHANGED <<threads, extract>>

\* DecorateResponder(b, decorators...) on a caller-supplied base responder b.
DoDecorateResponder(b) ==
    /\ pc = "idle"
    /\ responder' = DecorateResponder(b, decorators)
    /\ entry' = "Responder"
    /\ pc' = "composed"
    /\ UNCHANGED <<decorators, resp, invocation, callee, stack, s>>
    /\ UNCHANGED <<threads, extract>>

\* DecorateResponder(DecorateResponder(b, c1..ck), c(k+1)..cn): the list applied
\* in two calls.
DoDecorateResponderTwice(b, k) ==
    /\ pc = "idle"
    /\ responder' = DecorateResponder(DecorateResponder(b, SubSeq(decorators, 1, k)),
                                      SubSeq(decorators, k + 1, Len(decorators)))
    /\ entry' = "Responder"
    /\ pc' = "composed"
    /\ UNCHANGED <<decorators, resp, invocation, callee, stack, s>>
    /\ UNCHANGED <<threads, extract>>

\* The caller hands response r to responder rs: rs.Respond(r) begins.
StartCall(rs, r) ==
    /\ resp' = r
    /\ invocation' = invocation + 1
    /\ callee' = rs
    /\ stack' = <<>>
    /\ s' = FreshState(s.target)
    /\ pc' = "calling"

\* A Respond without the test of r against nil.
RespondUnguarded(r) ==
    /\ pc = "idle"
    /\ entry' = "Respond"
    /\ responder' = CreateResponder(decorators)
    /\ StartCall(responder', r)
    /\ UNCHANGED decorators
    /\ UNCHANGED <<threads, extract>>

\* Respond(r, decorators...)
Respond(r) ==
    /\ pc = "idle"
    /\ entry' = "Respond"
    /\ IF r.isNil
         THEN /\ resp' = r
              /\ invocation' = invocation + 1
              /\ pc' = "done"
              /\ s' = FreshState(s.target)
              /\ UNCHANGED <<responder, callee, stack>>
         ELSE /\ responder' = CreateResponder(decorators)
              /\ StartCall(responder', r)
    /\ UNCHANGED decorators
    /\ UNCHANGED <<threads, extract>>

\* responder.Respond(r), for the first time or again after a returned invocation.
Invoke(r) ==
    /\ \/ pc = "composed"
       \/ pc = "done" /\ entry = "Responder" /\ invocation = 1
    /\ StartCall(responder, r)
    /\ UNCHANGED <<decorators, entry, responder>>
    /\ UNCHANGED <<threads, extract>>

\* ResponderFunc.Respond: rf(r).  A decorator's closure starts by calling the
\* responder it wraps; the base responder returns its outcome.
Call ==
    /\ pc = "calling"
    /\ IF callee.kind = "decorated"
         THEN /\ stack' = Append(stack, callee.dec)
              /\ callee' = callee.inner
              /\ s' = Tick(s, "pre", callee.dec)
              /\ pc' = "calling"
         ELSE /\ s' = [s EXCEPT !.err = callee.err, !.trace = Append(@, Event("base", 0))]
              /\ callee' = NoResponder
              /\ pc' = IF stack = <<>> THEN "done" ELSE "returning"
              /\ UNCHANGED stack
    /\ UNCHANGED <<decorators, entry, responder, resp, invocation>>
    /\ UNCHANGED <<threads, extract>>

\* The innermost waiting closure gets its inner outcome, acts and returns.
Return ==
    /\ pc = "returning"
    /\ stack # <<>>
    /\ LET d == stack[Len(stack)]
           t == PostAction(d, resp, s)
       IN  /\ s' = IF t.panic THEN t ELSE Tick(t, "post", d)
           /\ stack' = SubSeq(stack, 1, Len(stack) - 1)
           /\ pc' = IF t.panic THEN "panic"
                    ELSE IF Len(stack) = 1 THEN "done" ELSE "returning"
    /\ UNCHANGED <<decorators, entry, responder, resp, invocation, callee>>
    /\ UNCHANGED <<threads, extract>>

Next ==
    \/ DoCreateResponder
    \/ \E b \in Bases : DoDecorateResponder(b)
    \/ \E b \in Bases : \E k \in 0..Len(decorators) : DoDecorateResponderTwice(b, k)
    \/ \E r \in Responses : Respond(r)
    \/ \E r \in Responses : Invoke(r)
    \/ Call
    \/ Return

Spec == Init /\ [][Next]_vars

(***************************************************************************)
(* Header accessors.  A header name is a sequence of characters; a         *)
(* response's Header is nil or a map from names (stored as their setter    *)
(* spelled them) to value lists.                                           *)
(***************************************************************************)
\* Longest header name.
MaxNameLen == 2

Chars == {"x", "X", "-"}

Upper(c) == IF c = "x" THEN "X" ELSE c

Lower(c) == IF c = "X" THEN "x" ELSE c

Names == UNION {[1..n -> Chars] : n \in 0..MaxNameLen}

HeaderValues == {<<>>, <<"v1", "v2">>, <<"v2", "v1">>}

\* The maps with no, one or two names.
HeaderMaps == {<<>>} \cup UNION {[{a, b} -> HeaderValues] : a, b \in Names}

HeaderResponses ==
    [isNil : {TRUE, FALSE}, headerNil : {TRUE}, header : {<<>>}]
    \cup [isNil : {FALSE}, headerNil : {FALSE}, header : HeaderMaps]

\* http.CanonicalHeaderKey: the first letter and every letter after a hyphen
\* in upper case, the others in lower case.
CanonicalHeaderKey(name) ==
    [i \in 1..Len(name) |->
        IF i = 1 \/ name[i - 1] = "-" THEN Upper(name[i]) ELSE Lower(name[i])]

\* m[k] of a Go map: the value stored under k, or the nil slice.
MapIndex(m, k) == IF k \in DOMAIN m THEN m[k] ELSE <<>>

\* An ExtractHeader that looks the name up as it is spelled.
ExtractHeaderVerbatim(header, r) ==
    IF ~r.isNil /\ ~r.headerNil THEN MapIndex(r.header, header) ELSE <<>>

\* if resp != nil && resp.Header != nil { return resp.Header[http.CanonicalHeaderKey(header)] }
\* return nil
ExtractHeader(header, r) ==
    IF ~r.isNil /\ ~r.headerNil THEN MapIndex(r.header, CanonicalHeaderKey(header)) ELSE <<>>

\* h := ExtractHeader(header, resp); if len(h) > 0 { return h[0] }; return ""
ExtractHeaderValue(header, r) ==
    LET h == ExtractHeader(header, r)
    IN  IF Len(h) > 0 THEN h[1] ELSE ""

InitHeader ==
    /\ decorators = <<>>
    /\ entry = "none"
    /\ responder = NoResponder
    /\ resp = NilResponse
    /\ invocation = 0
    /\ pc = "idle"
    /\ callee = NoResponder
    /\ stack = <<>>
    /\ s = FreshState(EmptyTarget)
    /\ threads = NoThreads
    /\ extract \in [op : {"call"}, name : Names, resp : HeaderResponses,
                     values : {<<>>}, value : {""}]

DoExtractHeader ==
    /\ extract.op = "call"
    /\ extract' = [extract EXCEPT !.op = "ExtractHeader",
                                  !.values = ExtractHeader(extract.name, extract.resp)]
    /\ UNCHANGED <<decorators, entry, responder, resp, invocation, pc, callee, stack, s,
                   threads>>

DoExtractHeaderValue ==
    /\ extract.op = "call"
    /\ extract' = [extract EXCEPT !.op = "ExtractHeaderValue",
                                  !.value = ExtractHeaderValue(extract.name, extract.resp)]
    /\ UNCHANGED <<decorators, entry, responder, resp, invocation, pc, callee, stack, s,
                   threads>>

NextHeader == DoExtractHeader \/ DoExtractHeaderValue

SpecHeader == InitHeader /\ [][NextHeader]_vars

(***************************************************************************)
(* Two goroutines invoke one composed responder, each on a response of its *)
(* own.  Each has its own calls, returns and body; the value v that a      *)
(* ByUnmarshallingJSON closure holds is the one thing they share.  The     *)
(* decoding of one closure is taken as one step.  A panic in either        *)
(* goroutine ends the program.                                             *)
(***************************************************************************)
\* Longest decorator list of a responder invoked concurrently.
MaxConcurrentChain == 2

ConcurrentResponses ==
    {r \in Responses : /\ ~r.isNil
                       /\ r.body \in {"DocA", "DocB"}
                       /\ r.status \in {StatusOK, 404}
                       /\ r.closedRead = "error"}

\* rs.Respond(r) begins in a goroutine.
ThreadStart(rs, r) ==
    [resp |-> r, pc |-> "calling", callee |-> rs, stack |-> <<>>,
     st |-> FreshState(EmptyTarget)]

InitConcurrent ==
    /\ decorators \in UNION {Chains(n) : n \in 0..MaxConcurrentChain}
    /\ entry = "Responder"
    /\ responder = CreateResponder(decorators)
    /\ resp = NilResponse
    /\ invocation = 0
    /\ pc = "composed"
    /\ callee = NoResponder
    /\ stack = <<>>
    /\ s = FreshState(EmptyTarget)
    /\ extract = NoExtract
    /\ threads \in {[v |-> EmptyTarget, writers |-> {},
                      run |-> <<ThreadStart(responder, r1), ThreadStart(responder, r2)>>] :
                        r1 \in ConcurrentResponses, r2 \in ConcurrentResponses}

Crashed == \E t \in DOMAIN threads.run : threads.run[t].pc = "panic"

\* Call, in goroutine t.
ThreadCall(t) ==
    /\ ~Crashed
    /\ LET th == threads.run[t]
       IN  /\ th.pc = "calling"
           /\ threads' =
                 [threads EXCEPT !.run[t] =
                    IF th.callee.kind = "decorated"
                      THEN [th EXCEPT !.stack = Append(@, th.callee.dec),
                                      !.callee = th.callee.inner,
                                      !.st = Tick(@, "pre", th.callee.dec)]
                      ELSE [th EXCEPT !.st = [@ EXCEPT !.err = th.callee.err,
                                                      !.trace = Append(@, Event("base", 0))],
                                      !.callee = NoResponder,
                                      !.pc = IF th.stack = <<>> THEN "done" ELSE "returning"]]
    /\ UNCHANGED <<decorators, entry, responder, resp, invocation, pc, callee, stack, s,
                   extract>>

\* Return, in goroutine t: the closure acts on the shared v as it is now.
ThreadReturn(t) ==
    /\ ~Crashed
    /\ LET th == threads.run[t]
           d == th.stack[Len(th.stack)]
           cur == [th.st EXCEPT !.target = threads.v]
           res == PostAction(d, th.resp, cur)
           decoded == /\ d.kind = "ByUnmarshallingJSON" /\ cur.err = NoError
                      /\ ~res.panic /\ res.err = NoError
       IN  /\ th.pc = "returning"
           /\ th.stack # <<>>
           /\ threads' =
                 [threads EXCEPT
                    !.v = res.target,
                    !.writers = IF decoded THEN @ \cup {t} ELSE @,
                    !.run[t] = [th EXCEPT
                       !.st = IF res.panic THEN res ELSE Tick(res, "post", d),
                       !.stack = SubSeq(th.stack, 1, Len(th.stack) - 1),
                       !.pc = IF res.panic THEN "panic"
                              ELSE IF Len(th.stack) = 1 THEN "done" ELSE "returning"]]
    /\ UNCHANGED <<decorators, entry, responder, resp, invocation, pc, callee, stack, s,
                   extract>>

NextConcurrent ==
    \/ \E t \in {1, 2} : ThreadCall(t)
    \/ \E t \in {1, 2} : ThreadReturn(t)

SpecConcurrent == InitConcurrent /\ [][NextConcurrent]_vars

(***************************************************************************)
(* Properties.                                                             *)
(***************************************************************************)
IsPrefix(p, q) == Len(p) <= Len(q) /\ SubSeq(q, 1, Len(p)) = p

\* The calls and returns of the trace, without the decorators' own actions.
CallTrace == SelectSeq(s.trace, LAMBDA e : e.ev \in {"pre", "base", "post"})

\* pre(cn), ..., pre(c1), base, post(c1), ..., post(cn)
NestedTrace(n) ==
    [i \in 1..(2 * n + 1) |->
        IF i <= n THEN Event("pre", n + 1 - i)
        ELSE IF i = n + 1 THEN Event("base", 0)
        ELSE Event("post", i - n - 1)]

Started == pc \in {"calling", "returning", "done", "panic"}

Closers == {i \in 1..Len(decorators) : decorators[i].kind \in {"ByClosing", "ByClosingIfError"}}

EventsOf(ev) == {i \in 1..Len(s.trace) : s.trace[i].ev = ev}

\* C1: the responder DecorateResponder builds from c1..cn runs, on one
\* invocation, pre(cn), ..., pre(c1), base, post(c1), ..., post(cn): at every
\* moment the calls and returns so far are a prefix of that sequence, and a
\* returned invocation has produced all of it (the last decorator of the list
\* is the outermost wrapper).
C1_NestingOrder ==
    (entry = "Responder" /\ Started) =>
        /\ IsPrefix(CallTrace, NestedTrace(Len(decorators)))
        /\ pc = "done" => CallTrace = NestedTrace(Len(decorators))

C1_Witness ==
    /\ entry = "Responder" /\ pc = "done" /\ Len(decorators) = 3
    /\ decorators[1].kind # decorators[3].kind
    /\ CallTrace = <<Event("pre", 3), Event("pre", 2), Event("pre", 1), Event("base", 0),
                     Event("post", 1), Event("post", 2), Event("post", 3)>>

\* C2: Respond(nil, C...) returns nil and runs no decorator body: no responder
\* is invoked, the body is neither read nor closed and v is not modified.
C2_NilResponse ==
    (entry = "Respond" /\ resp.isNil) =>
        /\ pc = "done"
        /\ s.err = NoError
        /\ s.trace = <<>>
        /\ s.closeCount = 0 /\ ~s.consumed /\ s.target = EmptyTarget
        /\ responder = NoResponder /\ callee = NoResponder /\ stack = <<>>

C2_Witness ==
    /\ entry = "Respond" /\ resp.isNil /\ pc = "done" /\ s.err = NoError
    /\ Len(decorators) = 3
    /\ \E i \in 1..3 : decorators[i].kind = "ByUnmarshallingJSON"

\* C3: when the base responder returns the error e on a non-nil response,
\* every chain of standard decorators returns exactly e, no closure faults,
\* and every ByClosing and ByClosingIfError of the chain runs its post-action:
\* each closes the body once if there is one.
C3_ErrorPropagates ==
    (Started /\ ~resp.isNil /\ BaseOf(responder).err = BaseError) =>
        /\ pc # "panic"
        /\ pc = "returning" => s.err = BaseError
        /\ pc = "done" =>
              /\ s.err = BaseError
              /\ \A i \in Closers : Event("post", i) \in {s.trace[j] : j \in 1..Len(s.trace)}
              /\ {s.trace[j].id : j \in EventsOf("close")}
                    = IF resp.body = NilBody THEN {} ELSE Closers
              /\ s.closeCount = IF resp.body = NilBody THEN 0 ELSE Cardinality(Closers)

C3_Witness ==
    /\ pc = "done" /\ ~resp.isNil /\ BaseOf(responder).err = BaseError
    /\ s.err = BaseError /\ s.closeCount = 2 /\ Len(decorators) = 3
    /\ \E i, j, k \in 1..3 :
          /\ decorators[i].kind = "ByClosing" /\ decorators[j].kind = "ByClosingIfError"
          /\ decorators[k].kind = "ByUnmarshallingJSON"

\* The chains of ByIgnoring, WithErrorUnlessStatusCode and exactly one ByClosing.
OneClosingChain ==
    /\ \A i \in 1..Len(decorators) :
          decorators[i].kind \in {"ByIgnoring", "WithErrorUnlessStatusCode", "ByClosing"}
    /\ Cardinality({i \in 1..Len(decorators) : decorators[i].kind = "ByClosing"}) = 1

Ended == pc \in {"done", "panic"}

\* C4: Respond with a chain of ByIgnoring, WithErrorUnlessStatusCode and exactly
\* one ByClosing, on a non-nil response with a non-nil body, has invoked Close
\* exactly once when it ends, on success and on error; [ByClosing,
\* WithErrorUnlessOK] on status 404 returns the synthesized status error.
C4_ClosesExactlyOnce ==
    (entry = "Respond" /\ Ended /\ ~resp.isNil /\ resp.body # NilBody /\ OneClosingChain) =>
        /\ s.closeCount = 1
        /\ (decorators = <<ByClosingDecorator(1), WithErrorUnlessOK(2)>> /\ resp.status = 404) =>
              (pc = "done" /\ s.err = NewErrorWithStatusCode(resp))

CloseThenRequireOK == <<ByClosingDecorator(1), WithErrorUnlessOK(2)>>

C5_Case ==
    /\ decorators = CloseThenRequireOK /\ Started
    /\ BaseOf(responder) = NoopResponder
    /\ ~resp.isNil /\ resp.body # NilBody

\* C5 as stated: in [close-body, require-OK] require-OK is the innermost
\* decorator and its status check precedes close-body's closing action.
C5_CheckBeforeClose ==
    C5_Case =>
        /\ responder.inner.dec.kind = "WithErrorUnlessStatusCode"
        /\ \A j \in EventsOf("close") : \E i \in EventsOf("check") : i < j

\* C5, amended: in [close-body, require-OK] close-body is the innermost
\* decorator and post-actions fire in list order: close-body closes the body
\* once, then require-OK checks the status, and the error require-OK
\* synthesizes is what the outermost responder returns.
C5_CloseBeforeCheck ==
    C5_Case =>
        /\ responder.dec = WithErrorUnlessOK(2)
        /\ responder.inner.dec = ByClosingDecorator(1)
        /\ \A j \in EventsOf("check") : \E i \in EventsOf("close") : i < j
        /\ IsPrefix(s.trace, <<Event("pre", 2), Event("pre", 1), Event("base", 0),
                               Event("close", 1), Event("post", 1),
                               Event("check", 2), Event("post", 2)>>)
        /\ s.err # NoError =>
              (pc = "done" /\ s.err = NewErrorWithStatusCode(resp) /\ s.closeCount = 1)
        /\ (pc = "done" /\ resp.status # StatusOK) => s.err = NewErrorWithStatusCode(resp)

C5_Witness ==
    /\ C5_Case /\ pc = "done" /\ resp.status = 404
    /\ s.err = NewErrorWithStatusCode(resp) /\ s.closeCount = 1
    /\ s.trace[4] = Event("close", 1) /\ s.trace[6] = Event("check", 2)

\* C6: wherever ByClosing stands in a chain, its closing action comes after
\* the action of every other decorator of the chain: no status check and no
\* read of the body follows a close.
C6_ClosingComesLast ==
    /\ ~s.readAfterClose
    /\ \A i \in EventsOf("close") : \A j \in EventsOf("read") \cup EventsOf("check") : j < i

\* C7: invoking a responder built by CreateResponder never ends in a runtime
\* fault, whatever response it is given.
C7_NoFault ==
    (entry = "Responder" /\ BaseOf(responder) = NoopResponder) => pc # "panic"

HasUnmarshalling == \E i \in 1..Len(decorators) : decorators[i].kind = "ByUnmarshallingJSON"

\* The current invocation, had it been the first one on this responder.
Alone == Run(responder, resp, FreshState(EmptyTarget))

SecondReturned == entry = "Responder" /\ invocation = 2 /\ pc = "done"

C9_RespondReturns ==
    (entry = "Respond" /\ ~resp.isNil) =>
        /\ pc # "panic"
        /\ pc = "done" =>
              /\ \A i \in 1..Len(decorators) :
                    Cardinality({j \in EventsOf("pre") : s.trace[j].id = i}) = 1
              /\ Cardinality(EventsOf("base")) = 1
              /\ invocation = 1
              /\ s.err = Run(CreateResponder(decorators), resp, FreshState(EmptyTarget)).err

\* A step in which the closure of a ByClosingIfError gets its inner outcome.
ByClosingIfErrorReturns ==
    /\ pc = "returning" /\ stack # <<>>
    /\ stack[Len(stack)].kind = "ByClosingIfError"
    /\ Len(stack') = Len(stack) - 1

\* C10: ByClosingIfError invokes Close (once) exactly when the responder it
\* wraps returned an error and the response and its body are not nil, and in
\* both cases it returns the inner outcome unchanged.
C10_ClosesIffError ==
    [][ByClosingIfErrorReturns =>
        /\ s'.closeCount =
              s.closeCount + (IF s.err # NoError /\ ~resp.isNil /\ resp.body # NilBody
                                THEN 1 ELSE 0)
        /\ s'.err = s.err
        /\ ~s'.panic]_vars

C10_Witness ==
    /\ pc = "done" /\ s.err # NoError /\ s.err.type = "status"
    /\ \E j \in EventsOf("close") : decorators[s.trace[j].id].kind = "ByClosingIfError"
    /\ \E i \in 1..Len(decorators) :
          /\ decorators[i].kind = "ByClosingIfError"
          /\ \A j \in EventsOf("close") : s.trace[j].id # i

\* A step in which the closure of a WithErrorUnlessStatusCode gets its inner outcome.
WithErrorUnlessStatusCodeReturns ==
    /\ pc = "returning" /\ stack # <<>>
    /\ stack[Len(stack)].kind = "WithErrorUnlessStatusCode"
    /\ Len(stack') = Len(stack) - 1

\* C11: when the responder it wraps succeeded, WithErrorUnlessStatusCode
\* returns success exactly when the response's status code is among codes, and
\* otherwise returns a synthesized error that carries the status code.
C11_StatusDecides ==
    [][(WithErrorUnlessStatusCodeReturns /\ s.err = NoError) =>
        LET codes == stack[Len(stack)].codes
        IN  /\ ~s'.panic
            /\ ~resp.isNil
            /\ resp.status \in codes => s'.err = NoError
            /\ resp.status \notin codes =>
                  (s'.err.type = "status" /\ s'.err.code = resp.status)]_vars

\* C12: composing a responder runs no decorator body and changes no response,
\* body or target: a responder that is composed and not yet invoked has left
\* the state as it was before.
C12_ComposingHasNoEffect ==
    pc = "composed" =>
        /\ s = FreshState(EmptyTarget)
        /\ resp = NilResponse /\ invocation = 0
        /\ callee = NoResponder /\ stack = <<>>

C12_Witness ==
    /\ pc = "composed" /\ Len(decorators) = 3
    /\ responder = CreateResponder(decorators)
    /\ \E i, j \in 1..3 :
          decorators[i].kind = "ByClosing" /\ decorators[j].kind = "ByUnmarshallingJSON"
    /\ s = FreshState(EmptyTarget)

\* The decorator list with its two elements exchanged.
Exchanged ==
    <<[decorators[2] EXCEPT !.id = 1], [decorators[1] EXCEPT !.id = 2]>>

\* A trace with each event's decorator named by its kind and codes.
KindTrace(trace, list) ==
    [i \in 1..Len(trace) |->
        IF trace[i].id = 0 THEN <<trace[i].ev, "base", {}>>
        ELSE <<trace[i].ev, list[trace[i].id].kind, list[trace[i].id].codes>>]

\* C15: the decorator list applied in two calls, split at any point, builds
\* the responder that one call builds, so an invocation leaves the same trace
\* and outcome on every response.
C15_Associative ==
    /\ pc = "composed" =>
          \A b \in Bases : \A k \in 0..Len(decorators) :
              DecorateResponder(DecorateResponder(b, SubSeq(decorators, 1, k)),
                                SubSeq(decorators, k + 1, Len(decorators)))
                = DecorateResponder(b, decorators)
    /\ (entry = "Responder" /\ invocation = 1 /\ Ended) =>
          s = Run(DecorateResponder(BaseOf(responder), decorators), resp,
                  FreshState(EmptyTarget))

\* Two decorators whose two orders leave different traces on one response.
C15_Witness ==
    /\ entry = "Responder" /\ invocation = 1 /\ pc = "done"
    /\ decorators = CloseThenRequireOK
    /\ resp.status = 404
    /\ s = Run(DecorateResponder(DecorateResponder(NoopResponder, SubSeq(decorators, 1, 1)),
                                  SubSeq(decorators, 2, 2)), resp, FreshState(EmptyTarget))
    /\ KindTrace(s.trace, decorators)
          # KindTrace(Run(CreateResponder(Exchanged), resp, FreshState(EmptyTarget)).trace,
                      Exchanged)

\* A step in which the closure of a ByUnmarshallingJSON gets its inner outcome.
ByUnmarshallingJSONReturns ==
    /\ pc = "returning" /\ stack # <<>>
    /\ stack[Len(stack)].kind = "ByUnmarshallingJSON"
    /\ Len(stack') = Len(stack) - 1

\* C16: when the responder it wraps returns an error, ByUnmarshallingJSON does
\* not read the body, leaves v as it is and returns that error.
C16_DecodesOnlyAfterSuccess ==
    [][(ByUnmarshallingJSONReturns /\ s.err # NoError) =>
        /\ s'.err = s.err
        /\ s'.target = s.target
        /\ s'.consumed = s.consumed /\ s'.readAfterClose = s.readAfterClose
        /\ s'.trace = Append(s.trace, Event("post", stack[Len(stack)].id))
        /\ ~s'.panic]_vars

C16_Witness ==
    /\ pc = "done" /\ s.err.type = "status"
    /\ resp.body = "DocA" /\ ~s.consumed /\ s.target = EmptyTarget
    /\ EventsOf("read") = {}
    /\ \E i \in 1..Len(decorators) :
          /\ decorators[i].kind = "ByUnmarshallingJSON"
          /\ Event("post", i) \in {s.trace[j] : j \in 1..Len(s.trace)}

CountOf(kind) == Cardinality({i \in 1..Len(decorators) : decorators[i].kind = kind})

C17_Case ==
    /\ Started /\ ~resp.isNil /\ resp.body # NilBody
    /\ CountOf("ByClosing") <= 1 /\ CountOf("ByClosingIfError") <= 1

\* C17 as stated: with ByClosing and ByClosingIfError each at most once in the
\* chain, one invocation (here on the no-op base responder) invokes Close at
\* most once.
C17_AtMostOneClose ==
    (C17_Case /\ BaseOf(responder) = NoopResponder) => s.closeCount <= 1

\* C17, amended: with ByClosing and ByClosingIfError each at most once in the
\* chain, one invocation invokes Close at most once per closing decorator, so
\* at most twice; at most once when the invocation returns success; and twice
\* only when both are in the chain and an error has reached ByClosingIfError.
C17_AtMostOneClosePerCloser ==
    C17_Case =>
        /\ s.closeCount <= CountOf("ByClosing") + CountOf("ByClosingIfError")
        /\ \A i \in Closers : Cardinality({j \in EventsOf("close") : s.trace[j].id = i}) <= 1
        /\ (pc = "done" /\ s.err = NoError) => s.closeCount <= 1
        /\ s.closeCount = 2 => s.err # NoError

C17_Witness ==
    /\ C17_Case /\ pc = "done" /\ s.closeCount = 2
    /\ s.err = NewErrorWithStatusCode(resp)
    /\ CountOf("WithErrorUnlessStatusCode") = 1

\* The name is absent: no response, no Header, or nothing stored under the
\* canonical form of the name.
HeaderAbsent ==
    \/ extract.resp.isNil
    \/ extract.resp.headerNil
    \/ CanonicalHeaderKey(extract.name) \notin DOMAIN extract.resp.header

\* C14: ExtractHeader returns the empty sequence when the response is nil, its
\* Header is nil or the name is absent, and otherwise the values stored under
\* the canonical form of the name, in order; ExtractHeaderValue returns the
\* first of them, or "" when there is none.
C14_HeaderValues ==
    /\ extract.op = "ExtractHeader" =>
          /\ HeaderAbsent => extract.values = <<>>
          /\ ~HeaderAbsent =>
                extract.values = extract.resp.header[CanonicalHeaderKey(extract.name)]
    /\ extract.op = "ExtractHeaderValue" =>
          /\ HeaderAbsent => extract.value = ""
          /\ ~HeaderAbsent =>
                LET h == extract.resp.header[CanonicalHeaderKey(extract.name)]
                IN  extract.value = IF h = <<>> THEN "" ELSE h[1]
          /\ (~extract.resp.isNil /\ ~extract.resp.headerNil
               /\ extract.resp.header = [k \in {<<"X", "x">>} |-> <<"v1", "v2">>]) =>
                extract.value = IF extract.name \in {<<"X", "x">>, <<"x", "x">>,
                                                     <<"x", "X">>, <<"X", "X">>}
                                  THEN "v1" ELSE ""

C14_Witness ==
    /\ extract.op = "ExtractHeaderValue"
    /\ extract.name = <<"x", "X">>
    /\ ~extract.resp.isNil /\ ~extract.resp.headerNil
    /\ DOMAIN extract.resp.header = {<<"X", "x">>, <<"x", "X">>}
    /\ extract.resp.header[<<"X", "x">>] = <<"v1", "v2">>
    /\ extract.resp.header[<<"x", "X">>] = <<"v2", "v1">>
    /\ extract.value = "v1"

\* The invocation of goroutine t, had it run alone.
AloneOf(t) == Run(responder, threads.run[t].resp, FreshState(EmptyTarget))

====
